---- MODULE Spec2Model ----
(***************************************************************************)
(* Test drivers of the hipBLAS client for four Hermitian updates:          *)
(*   testing_her2k_strided_batched, testing_herk   (rank-2k / rank-k)      *)
(*   testing_hpr                                   (packed rank-1)         *)
(*   testing_her_batched                           (batched rank-1)        *)
(* Each driver is a straight-line program over host and device buffers.    *)
(* The program text of a driver is a table from source line to statement;  *)
(* pc is the source line of the statement that runs next.  One action per  *)
(* kind of statement executes the statement at pc.                         *)
(*                                                                         *)
(* A buffer's content is one token per batch element.  A token names the   *)
(* host buffer whose initialisation produced the data (src) and how many   *)
(* times the update was applied to it (upd); upd = -1 is a result that is  *)
(* not the update of the data.  src = "none" is uninitialised memory.      *)
(***************************************************************************)
EXTENDS Integers, Sequences, FiniteSets, TLC

\* Bounds of the enumerated inputs.
MaxN == 2
MaxBatch == 2
MaxIters == 1

Drivers == {"her2k_strided_batched", "herk", "hpr", "her_batched"}
Batched == {"her2k_strided_batched", "her_batched"}

PointerModes == {"HOST", "DEVICE"}
HipStatuses == {"hipSuccess", "hipError"}
BlasStatuses == {"SUCCESS", "INVALID_VALUE", "EXECUTION_FAILED"}
SuccessStatuses == {"hipSuccess", "SUCCESS"}

HostBufs ==
  {"hA", "hB", "hx", "hC_host", "hC_device", "hC_gold",
   "hA_cpu", "hA_host", "hA_device", "h_alpha", "h_beta"}
DevBufs == {"dA", "dB", "dx", "dC", "d_alpha", "d_beta"}
Bufs == HostBufs \cup DevBufs
Scalars == {"h_alpha", "h_beta", "d_alpha", "d_beta"}

\* Where a pointer passed to the kernel lives.
Residence(name) ==
  IF name \in DevBufs THEN "device" ELSE "host"

\* Values an uninitialised double may hold when it is read.
Garbage == {0, 1}

VARIABLES
  driver,               \* the test function under execution
  arg,                  \* const Arguments& arg
  lib,                  \* the library under test: "correct" or "faulty"
  pc,                   \* source line of the next statement; 0 = test case over
  b,                    \* loop variable of the oracle's batch loop
  iter,                 \* loop variable of the timing loop
  size,                 \* allocated element count of each buffer, -1 = none
  mem,                  \* content of each buffer
  mode,                 \* pointer mode of the hipblasLocalHandle, "none" before it exists
  gpu_time_used,
  hipblas_error_host,
  hipblas_error_device,
  actual,               \* status of the quick-return kernel call
  assigned,             \* the double locals that have been written
  clock,                \* device time, one unit per kernel invocation
  fatal,                \* a fatal test failure was recorded
  ret,                  \* status returned to the test runner, "none" before
  trace                 \* the operations performed so far, in order

vars ==
  <<driver, arg, lib, pc, b, iter, size, mem, mode, gpu_time_used,
    hipblas_error_host, hipblas_error_device, actual, assigned, clock,
    fatal, ret, trace>>

-----------------------------------------------------------------------------
\* Locals the drivers derive from the arguments.

her2k_K1 ==
  IF arg.transA = "N" THEN arg.K ELSE arg.N
her2k_stride_A ==
  arg.lda * her2k_K1 * arg.stride_scale
her2k_stride_B ==
  arg.ldb * her2k_K1 * arg.stride_scale
her2k_stride_C ==
  arg.ldc * arg.N * arg.stride_scale
her2k_A_size ==
  her2k_stride_A * arg.batch_count
her2k_B_size ==
  her2k_stride_B * arg.batch_count
her2k_C_size ==
  her2k_stride_C * arg.batch_count

herk_K1 ==
  IF arg.transA = "N" THEN arg.K ELSE arg.N
herk_A_size ==
  arg.lda * herk_K1
herk_C_size ==
  arg.ldc * arg.N

hpr_abs_incx ==
  IF arg.incx >= 0 THEN arg.incx ELSE -arg.incx
hpr_x_size ==
  arg.N * hpr_abs_incx
hpr_A_size ==
  (arg.N * (arg.N + 1)) \div 2
\* hpr_invalid_size without its test of N.
hpr_invalid_size_incx_only ==
  arg.incx = 0
hpr_invalid_size ==
  arg.N < 0 \/ arg.incx = 0

her_batched_A_size ==
  arg.lda * arg.N
her_batched_x_size ==
  arg.N * (IF arg.incx >= 0 THEN arg.incx ELSE -arg.incx)
\* her_batched_invalid_size without its test of batch_count.
her_batched_invalid_size_no_batch_count ==
  arg.N < 0 \/ arg.lda < arg.N \/ arg.lda < 1 \/ arg.incx = 0
her_batched_invalid_size ==
  arg.N < 0 \/ arg.lda < arg.N \/ arg.lda < 1 \/ arg.incx = 0 \/ arg.batch_count < 0

her2k_sanity ==
  \/ arg.N < 0
  \/ arg.K < 0
  \/ arg.ldc < arg.N
  \/ (arg.transA = "N" /\ (arg.lda < arg.N \/ arg.ldb < arg.N))
  \/ (arg.transA # "N" /\ (arg.lda < arg.K \/ arg.ldb < arg.K))
  \/ arg.batch_count < 0

herk_sanity ==
  \/ arg.N < 0
  \/ arg.K < 0
  \/ arg.ldc < arg.N
  \/ (arg.transA = "N" /\ arg.lda < arg.N)
  \/ (arg.transA # "N" /\ arg.lda < arg.K)

hpr_quick_return ==
  hpr_invalid_size \/ arg.N = 0

her_batched_quick_return ==
  her_batched_invalid_size \/ arg.N = 0 \/ arg.batch_count = 0

\* runs without the warm-up iterations.
runs_measured_only ==
  arg.iters
runs ==
  arg.cold_iters + arg.iters

\* The value of an expression that a statement of the table names.
Val(name) ==
  CASE name = "0" -> 0
    [] name = "1" -> 1
    [] name = "N" -> arg.N
    [] name = "K" -> arg.K
    [] name = "lda" -> arg.lda
    [] name = "ldb" -> arg.ldb
    [] name = "ldc" -> arg.ldc
    [] name = "batch_count" -> arg.batch_count
    [] name = "K1" -> IF driver = "herk" THEN herk_K1 ELSE her2k_K1
    [] name = "stride_A" -> her2k_stride_A
    [] name = "stride_B" -> her2k_stride_B
    [] name = "stride_C" -> her2k_stride_C
    [] name = "B_size" -> her2k_B_size
    [] name = "C_size" -> IF driver = "herk" THEN herk_C_size ELSE her2k_C_size
    [] name = "abs_incx" -> hpr_abs_incx
    [] name = "x_size" -> IF driver = "hpr" THEN hpr_x_size ELSE her_batched_x_size
    [] name = "A_size" ->
         CASE driver = "her2k_strided_batched" -> her2k_A_size
           [] driver = "herk" -> herk_A_size
           [] driver = "hpr" -> hpr_A_size
           [] driver = "her_batched" -> her_batched_A_size

\* The value of a condition that a statement of the table names.
Cond(name) ==
  CASE name = "her2k_sanity" -> her2k_sanity
    [] name = "herk_sanity" -> herk_sanity
    [] name = "hpr_quick_return" -> hpr_quick_return
    [] name = "her_batched_quick_return" -> her_batched_quick_return
    [] name = "batch_count == 0" -> arg.batch_count = 0
    [] name = "unit_check || norm_check" -> arg.unit_check \/ arg.norm_check
    [] name = "unit_check" -> arg.unit_check
    [] name = "norm_check" -> arg.norm_check
    [] name = "timing" -> arg.timing
    [] name = "b < batch_count" -> b < arg.batch_count
    [] name = "iter < runs" -> iter < runs
    [] name = "iter == cold_iters" -> iter = arg.cold_iters

-----------------------------------------------------------------------------
\* Statements.  next, yes and no are the source lines control goes to.

If(c, t, e) ==
  [op |-> "if", cond |-> c, yes |-> t, no |-> e]
Return(n) ==
  [op |-> "return", next |-> n]
ReturnStatus(s) ==
  [op |-> "return_status", status |-> s]
Alloc(bs, n) ==
  [op |-> "alloc", bufs |-> bs, next |-> n]
Handle(n) ==
  [op |-> "handle", next |-> n]
GetScalar(ds, n) ==
  [op |-> "get_scalar", dsts |-> ds, next |-> n]
InitData(buf, as, n) ==
  [op |-> "init", buf |-> buf, args |-> as, next |-> n]
Assign(d, s, n) ==
  [op |-> "assign", dst |-> d, src |-> s, next |-> n]
Memcpy(d, s, n) ==
  [op |-> "memcpy", dst |-> d, src |-> s, next |-> n]
Memcheck(buf, n) ==
  [op |-> "memcheck", buf |-> buf, next |-> n]
SetPointerMode(m, n) ==
  [op |-> "setmode", mode |-> m, next |-> n]
Kernel(ph, sc, is, o, i, n) ==
  [op |-> "kernel", phase |-> ph, scal |-> sc, ins |-> is, out |-> o,
   inc |-> i, next |-> n]
KernelNull(n) ==
  [op |-> "kernel_null", next |-> n]
Expect(n) ==
  [op |-> "expect", next |-> n]
Oracle(sc, is, ss, o, os, i, n) ==
  [op |-> "oracle", scal |-> sc, ins |-> is, strides |-> ss, out |-> o,
   ostride |-> os, inc |-> i, next |-> n]
UnitCheck(as, g, o, n) ==
  [op |-> "unit_check", args |-> as, gold |-> g, other |-> o, next |-> n]
NormCheck(v, as, g, o, n) ==
  [op |-> "norm_check", var |-> v, args |-> as, gold |-> g, other |-> o,
   next |-> n]
GetStream(n) ==
  [op |-> "getstream", next |-> n]
Timestamp(n) ==
  [op |-> "timestamp", next |-> n]
StopTime(n) ==
  [op |-> "stoptime", next |-> n]
Log(n) ==
  [op |-> "log", next |-> n]

-----------------------------------------------------------------------------
\* testing_her2k_strided_batched and its wrapper
\* (clients/include/blas3/testing_her2k_strided_batched.hpp, lines 52-257).

\* her2k_quick going on to the allocations when batch_count is zero.
her2k_quick_runs_empty_batch ==
  79 :> If("her2k_sanity", 82, 84)
  @@ 82 :> Return(256)
  @@ 84 :> If("batch_count == 0", 90, 90)
  @@ 86 :> Return(256)

her2k_quick ==
  79 :> If("her2k_sanity", 82, 84)
  @@ 82 :> Return(256)
  @@ 84 :> If("batch_count == 0", 86, 90)
  @@ 86 :> Return(256)

\* her2k_setup with line 120 uploading hA into dB.
her2k_setup_uploads_hA_as_B ==
  90 :> Alloc(<< <<"hA", "A_size">>, <<"hB", "B_size">>, <<"hC_host", "C_size">>,
                 <<"hC_device", "C_size">>, <<"hC_gold", "C_size">>,
                 <<"dA", "A_size">>, <<"dB", "B_size">>, <<"dC", "C_size">>,
                 <<"d_alpha", "1">>, <<"d_beta", "1">> >>, 102)
  @@ 102 :> GetScalar(<<"h_alpha", "h_beta">>, 106)
  @@ 106 :> Handle(109)
  @@ 109 :> InitData("hA", <<"N", "K1", "lda", "stride_A", "batch_count">>, 111)
  @@ 111 :> InitData("hB", <<"N", "K1", "ldb", "stride_B", "batch_count">>, 113)
  @@ 113 :> InitData("hC_host", <<"N", "N", "ldc", "stride_C", "batch_count">>, 115)
  @@ 115 :> Assign("hC_device", "hC_host", 116)
  @@ 116 :> Assign("hC_gold", "hC_host", 119)
  @@ 119 :> Memcpy("dA", "hA", 120)
  @@ 120 :> Memcpy("dB", "hA", 121)
  @@ 121 :> Memcpy("dC", "hC_host", 122)
  @@ 122 :> Memcpy("d_alpha", "h_alpha", 123)
  @@ 123 :> Memcpy("d_beta", "h_beta", 125)

her2k_setup ==
  90 :> Alloc(<< <<"hA", "A_size">>, <<"hB", "B_size">>, <<"hC_host", "C_size">>,
                 <<"hC_device", "C_size">>, <<"hC_gold", "C_size">>,
                 <<"dA", "A_size">>, <<"dB", "B_size">>, <<"dC", "C_size">>,
                 <<"d_alpha", "1">>, <<"d_beta", "1">> >>, 102)
  @@ 102 :> GetScalar(<<"h_alpha", "h_beta">>, 106)
  @@ 106 :> Handle(109)
  @@ 109 :> InitData("hA", <<"N", "K1", "lda", "stride_A", "batch_count">>, 111)
  @@ 111 :> InitData("hB", <<"N", "K1", "ldb", "stride_B", "batch_count">>, 113)
  @@ 113 :> InitData("hC_host", <<"N", "N", "ldc", "stride_C", "batch_count">>, 115)
  @@ 115 :> Assign("hC_device", "hC_host", 116)
  @@ 116 :> Assign("hC_gold", "hC_host", 119)
  @@ 119 :> Memcpy("dA", "hA", 120)
  @@ 120 :> Memcpy("dB", "hB", 121)
  @@ 121 :> Memcpy("dC", "hC_host", 122)
  @@ 122 :> Memcpy("d_alpha", "h_alpha", 123)
  @@ 123 :> Memcpy("d_beta", "h_beta", 125)

her2k_host_call ==
  125 :> If("unit_check || norm_check", 130, 210)
  @@ 130 :> SetPointerMode("HOST", 131)
  @@ 131 :> Kernel("check", <<"h_alpha", "h_beta">>, <<"dA", "dB">>, "dC", "none", 150)
  @@ 150 :> Memcpy("hC_host", "dC", 152)

\* her2k_device_call without the hipblasSetPointerMode of line 153.
her2k_device_call_mode_not_set ==
  152 :> Memcpy("dC", "hC_device", 154)
  @@ 154 :> Kernel("check", <<"d_alpha", "d_beta">>, <<"dA", "dB">>, "dC", "none", 172)
  @@ 172 :> Memcpy("hC_device", "dC", 177)

her2k_device_call ==
  152 :> Memcpy("dC", "hC_device", 153)
  @@ 153 :> SetPointerMode("DEVICE", 154)
  @@ 154 :> Kernel("check", <<"d_alpha", "d_beta">>, <<"dA", "dB">>, "dC", "none", 172)
  @@ 172 :> Memcpy("hC_device", "dC", 177)

\* her2k_oracle leaving the batch loop after its first application.
her2k_oracle_first_element_only ==
  177 :> If("b < batch_count", 179, 195)
  @@ 179 :> Oracle(<<"h_alpha", "h_beta">>, <<"hA", "hB">>, <<"stride_A", "stride_B">>,
                   "hC_gold", "stride_C", "b", 195)

her2k_oracle ==
  177 :> If("b < batch_count", 179, 195)
  @@ 179 :> Oracle(<<"h_alpha", "h_beta">>, <<"hA", "hB">>, <<"stride_A", "stride_B">>,
                   "hC_gold", "stride_C", "b", 177)

\* her2k_verify with the leading dimension passed as the row count of the
\* first unit check.
her2k_verify_rows_ldc ==
  195 :> If("unit_check", 197, 201)
  @@ 197 :> UnitCheck(<<"ldc", "N", "batch_count", "ldc", "stride_C">>,
                      "hC_gold", "hC_host", 198)
  @@ 198 :> UnitCheck(<<"N", "N", "batch_count", "ldc", "stride_C">>,
                      "hC_gold", "hC_device", 201)
  @@ 201 :> If("norm_check", 203, 210)
  @@ 203 :> NormCheck("hipblas_error_host",
                      <<"N", "N", "ldc", "stride_C", "batch_count">>,
                      "hC_gold", "hC_host", 205)
  @@ 205 :> NormCheck("hipblas_error_device",
                      <<"N", "N", "ldc", "stride_C", "batch_count">>,
                      "hC_gold", "hC_device", 210)

her2k_verify ==
  195 :> If("unit_check", 197, 201)
  @@ 197 :> UnitCheck(<<"N", "N", "batch_count", "ldc", "stride_C">>,
                      "hC_gold", "hC_host", 198)
  @@ 198 :> UnitCheck(<<"N", "N", "batch_count", "ldc", "stride_C">>,
                      "hC_gold", "hC_device", 201)
  @@ 201 :> If("norm_check", 203, 210)
  @@ 203 :> NormCheck("hipblas_error_host",
                      <<"N", "N", "ldc", "stride_C", "batch_count">>,
                      "hC_gold", "hC_host", 205)
  @@ 205 :> NormCheck("hipblas_error_device",
                      <<"N", "N", "ldc", "stride_C", "batch_count">>,
                      "hC_gold", "hC_device", 210)

\* her2k_timing with the log record written whether or not timing is set.
her2k_timing_always_logs ==
  210 :> If("timing", 213, 242)
  @@ 213 :> GetStream(214)
  @@ 214 :> SetPointerMode("DEVICE", 217)
  @@ 217 :> If("iter < runs", 219, 240)
  @@ 219 :> If("iter == cold_iters", 220, 222)
  @@ 220 :> Timestamp(222)
  @@ 222 :> Kernel("timing", <<"d_alpha", "d_beta">>, <<"dA", "dB">>, "dC", "iter", 217)
  @@ 240 :> StopTime(242)
  @@ 242 :> Log(250)
  @@ 250 :> Return(256)
  @@ 256 :> ReturnStatus("SUCCESS")

her2k_timing ==
  210 :> If("timing", 213, 250)
  @@ 213 :> GetStream(214)
  @@ 214 :> SetPointerMode("DEVICE", 217)
  @@ 217 :> If("iter < runs", 219, 240)
  @@ 219 :> If("iter == cold_iters", 220, 222)
  @@ 220 :> Timestamp(222)
  @@ 222 :> Kernel("timing", <<"d_alpha", "d_beta">>, <<"dA", "dB">>, "dC", "iter", 217)
  @@ 240 :> StopTime(242)
  @@ 242 :> Log(250)
  @@ 250 :> Return(256)
  @@ 256 :> ReturnStatus("SUCCESS")

testing_her2k_strided_batched ==
  her2k_quick @@ her2k_setup @@ her2k_host_call @@ her2k_device_call
  @@ her2k_oracle @@ her2k_verify @@ her2k_timing

-----------------------------------------------------------------------------
\* testing_herk and its wrapper (same file, lines 298-426).

herk_quick ==
  315 :> If("herk_sanity", 318, 326)
  @@ 318 :> Return(425)

herk_setup ==
  326 :> Alloc(<< <<"hA", "A_size">>, <<"hC_host", "C_size">>,
                  <<"hC_device", "C_size">>, <<"hC_gold", "C_size">>,
                  <<"dA", "A_size">>, <<"dC", "C_size">>,
                  <<"d_alpha", "1">>, <<"d_beta", "1">> >>, 336)
  @@ 336 :> GetScalar(<<"h_alpha", "h_beta">>, 340)
  @@ 340 :> Handle(343)
  @@ 343 :> InitData("hA", <<"N", "K1", "lda", "0", "1">>, 344)
  @@ 344 :> InitData("hC_host", <<"N", "N", "ldc", "0", "1">>, 345)
  @@ 345 :> Assign("hC_device", "hC_host", 346)
  @@ 346 :> Assign("hC_gold", "hC_host", 349)
  @@ 349 :> Memcpy("dA", "hA", 350)
  @@ 350 :> Memcpy("dC", "hC_host", 351)
  @@ 351 :> Memcpy("d_alpha", "h_alpha", 352)
  @@ 352 :> Memcpy("d_beta", "h_beta", 354)

herk_host_call ==
  354 :> If("unit_check || norm_check", 359, 394)
  @@ 359 :> SetPointerMode("HOST", 360)
  @@ 360 :> Kernel("check", <<"h_alpha", "h_beta">>, <<"dA">>, "dC", "none", 364)
  @@ 364 :> Memcpy("hC_host", "dC", 366)

\* herk_device_call with line 366 copying the host-mode result back to the device.
herk_device_call_recopies_result ==
  366 :> Memcpy("dC", "hC_host", 367)
  @@ 367 :> SetPointerMode("DEVICE", 368)
  @@ 368 :> Kernel("check", <<"d_alpha", "d_beta">>, <<"dA">>, "dC", "none", 372)
  @@ 372 :> Memcpy("hC_device", "dC", 377)

herk_device_call ==
  366 :> Memcpy("dC", "hC_device", 367)
  @@ 367 :> SetPointerMode("DEVICE", 368)
  @@ 368 :> Kernel("check", <<"d_alpha", "d_beta">>, <<"dA">>, "dC", "none", 372)
  @@ 372 :> Memcpy("hC_device", "dC", 377)

herk_oracle ==
  377 :> Oracle(<<"h_alpha", "h_beta">>, <<"hA">>, <<"0">>, "hC_gold", "0", "none", 381)

\* herk_verify with the norm checks made ahead of the unit checks.
herk_verify_norm_first ==
  381 :> If("norm_check", 389, 383)
  @@ 389 :> NormCheck("hipblas_error_host", <<"N", "N", "ldc">>,
                      "hC_gold", "hC_host", 390)
  @@ 390 :> NormCheck("hipblas_error_device", <<"N", "N", "ldc">>,
                      "hC_gold", "hC_device", 387)
  @@ 387 :> If("unit_check", 383, 394)
  @@ 383 :> UnitCheck(<<"N", "N", "ldc">>, "hC_gold", "hC_host", 384)
  @@ 384 :> UnitCheck(<<"N", "N", "ldc">>, "hC_gold", "hC_device", 394)

herk_verify ==
  381 :> If("unit_check", 383, 387)
  @@ 383 :> UnitCheck(<<"N", "N", "ldc">>, "hC_gold", "hC_host", 384)
  @@ 384 :> UnitCheck(<<"N", "N", "ldc">>, "hC_gold", "hC_device", 387)
  @@ 387 :> If("norm_check", 389, 394)
  @@ 389 :> NormCheck("hipblas_error_host", <<"N", "N", "ldc">>,
                      "hC_gold", "hC_host", 390)
  @@ 390 :> NormCheck("hipblas_error_device", <<"N", "N", "ldc">>,
                      "hC_gold", "hC_device", 394)

herk_timing ==
  394 :> If("timing", 397, 419)
  @@ 397 :> GetStream(398)
  @@ 398 :> SetPointerMode("DEVICE", 401)
  @@ 401 :> If("iter < runs", 403, 409)
  @@ 403 :> If("iter == cold_iters", 404, 406)
  @@ 404 :> Timestamp(406)
  @@ 406 :> Kernel("timing", <<"d_alpha", "d_beta">>, <<"dA">>, "dC", "iter", 401)
  @@ 409 :> StopTime(411)
  @@ 411 :> Log(419)
  @@ 419 :> Return(425)
  @@ 425 :> ReturnStatus("SUCCESS")

testing_herk ==
  herk_quick @@ herk_setup @@ herk_host_call @@ herk_device_call
  @@ herk_oracle @@ herk_verify @@ herk_timing

-----------------------------------------------------------------------------
\* testing_hpr and its wrapper (unnamed/part_000, lines 41-164).

hpr_quick ==
  55 :> Handle(60)
  @@ 60 :> If("hpr_quick_return", 62, 69)
  @@ 62 :> KernelNull(63)
  @@ 63 :> Expect(65)
  @@ 65 :> Return(163)

hpr_setup ==
  69 :> Alloc(<< <<"hA", "A_size">>, <<"hA_cpu", "A_size">>, <<"hA_host", "A_size">>,
                 <<"hA_device", "A_size">>, <<"hx", "x_size">>,
                 <<"dA", "A_size">>, <<"dx", "x_size">>, <<"d_alpha", "1">> >>, 81)
  @@ 81 :> GetScalar(<<"h_alpha">>, 84)
  @@ 84 :> InitData("hA", <<"A_size", "1", "1", "0", "1">>, 85)
  @@ 85 :> InitData("hx", <<"N", "abs_incx", "0", "1">>, 88)
  @@ 88 :> Assign("hA_cpu", "hA", 91)
  @@ 91 :> Memcpy("dA", "hA", 92)
  @@ 92 :> Memcpy("dx", "hx", 93)
  @@ 93 :> Memcpy("d_alpha", "h_alpha", 95)

hpr_host_call ==
  95 :> If("unit_check || norm_check", 100, 132)
  @@ 100 :> SetPointerMode("HOST", 101)
  @@ 101 :> Kernel("check", <<"h_alpha">>, <<"dx">>, "dA", "none", 103)
  @@ 103 :> Memcpy("hA_host", "dA", 105)

hpr_device_call ==
  105 :> Memcpy("dA", "hA", 107)
  @@ 107 :> SetPointerMode("DEVICE", 108)
  @@ 108 :> Kernel("check", <<"d_alpha">>, <<"dx">>, "dA", "none", 110)
  @@ 110 :> Memcpy("hA_device", "dA", 116)

hpr_oracle ==
  116 :> Oracle(<<"h_alpha">>, <<"hx">>, <<"0">>, "hA_cpu", "0", "none", 120)

hpr_verify ==
  120 :> If("unit_check", 122, 125)
  @@ 122 :> UnitCheck(<<"1", "A_size", "1">>, "hA_cpu", "hA_host", 123)
  @@ 123 :> UnitCheck(<<"1", "A_size", "1">>, "hA_cpu", "hA_device", 125)
  @@ 125 :> If("norm_check", 127, 132)
  @@ 127 :> NormCheck("hipblas_error_host", <<"1", "A_size", "1">>,
                      "hA_cpu", "hA_host", 128)
  @@ 128 :> NormCheck("hipblas_error_device", <<"1", "A_size", "1">>,
                      "hA_cpu", "hA_device", 132)

hpr_timing ==
  132 :> If("timing", 134, 157)
  @@ 134 :> Memcpy("dA", "hA", 136)
  @@ 136 :> GetStream(137)
  @@ 137 :> SetPointerMode("DEVICE", 140)
  @@ 140 :> If("iter < runs", 142, 147)
  @@ 142 :> If("iter == cold_iters", 143, 145)
  @@ 143 :> Timestamp(145)
  @@ 145 :> Kernel("timing", <<"d_alpha">>, <<"dx">>, "dA", "iter", 140)
  @@ 147 :> StopTime(149)
  @@ 149 :> Log(157)
  @@ 157 :> Return(163)
  @@ 163 :> ReturnStatus("SUCCESS")

testing_hpr ==
  hpr_quick @@ hpr_setup @@ hpr_host_call @@ hpr_device_call
  @@ hpr_oracle @@ hpr_verify @@ hpr_timing

-----------------------------------------------------------------------------
\* testing_her_batched (clients/include/testing_her_batched.hpp, lines 34-182).

\* her_batched_quick returning SUCCESS whatever the kernel gave.
her_batched_quick_returns_success ==
  51 :> GetScalar(<<"h_alpha">>, 53)
  @@ 53 :> Handle(58)
  @@ 58 :> If("her_batched_quick_return", 60, 68)
  @@ 60 :> KernelNull(62)
  @@ 62 :> Expect(64)
  @@ 64 :> ReturnStatus("SUCCESS")

her_batched_quick ==
  51 :> GetScalar(<<"h_alpha">>, 53)
  @@ 53 :> Handle(58)
  @@ 58 :> If("her_batched_quick_return", 60, 68)
  @@ 60 :> KernelNull(62)
  @@ 62 :> Expect(64)
  @@ 64 :> ReturnStatus("actual")

her_batched_setup ==
  68 :> Alloc(<< <<"hA", "A_size">>, <<"hA_cpu", "A_size">>, <<"hA_host", "A_size">>,
                 <<"hA_device", "A_size">>, <<"hx", "x_size">>,
                 <<"dA", "A_size">>, <<"dx", "x_size">>, <<"d_alpha", "1">> >>, 78)
  @@ 78 :> Memcheck("dA", 79)
  @@ 79 :> Memcheck("dx", 82)
  @@ 82 :> InitData("hA", <<>>, 83)
  @@ 83 :> InitData("hx", <<>>, 85)
  @@ 85 :> Assign("hA_cpu", "hA", 86)
  @@ 86 :> Memcpy("dA", "hA", 87)
  @@ 87 :> Memcpy("dx", "hx", 88)
  @@ 88 :> Memcpy("d_alpha", "h_alpha", 90)

her_batched_host_call ==
  90 :> If("unit_check || norm_check", 95, 146)
  @@ 95 :> SetPointerMode("HOST", 96)
  @@ 96 :> Kernel("check", <<"h_alpha">>, <<"dx">>, "dA", "none", 106)
  @@ 106 :> Memcpy("hA_host", "dA", 107)

her_batched_device_call ==
  107 :> Memcpy("dA", "hA", 109)
  @@ 109 :> SetPointerMode("DEVICE", 110)
  @@ 110 :> Kernel("check", <<"d_alpha">>, <<"dx">>, "dA", "none", 120)
  @@ 120 :> Memcpy("hA_device", "dA", 125)

her_batched_oracle ==
  125 :> If("b < batch_count", 127, 132)
  @@ 127 :> Oracle(<<"h_alpha">>, <<"hx">>, <<"1">>, "hA_cpu", "1", "b", 125)

her_batched_verify ==
  132 :> If("unit_check", 134, 137)
  @@ 134 :> UnitCheck(<<"N", "N", "batch_count", "lda">>, "hA_cpu", "hA_host", 135)
  @@ 135 :> UnitCheck(<<"N", "N", "batch_count", "lda">>, "hA_cpu", "hA_host", 137)
  @@ 137 :> If("norm_check", 139, 146)
  @@ 139 :> NormCheck("hipblas_error_host", <<"N", "N", "lda", "batch_count">>,
                      "hA_cpu", "hA_host", 141)
  @@ 141 :> NormCheck("hipblas_error_device", <<"N", "N", "lda", "batch_count">>,
                      "hA_cpu", "hA_device", 146)

her_batched_timing ==
  146 :> If("timing", 148, 181)
  @@ 148 :> Memcpy("dA", "hA", 150)
  @@ 150 :> GetStream(151)
  @@ 151 :> SetPointerMode("DEVICE", 154)
  @@ 154 :> If("iter < runs", 156, 169)
  @@ 156 :> If("iter == cold_iters", 157, 159)
  @@ 157 :> Timestamp(159)
  @@ 159 :> Kernel("timing", <<"d_alpha">>, <<"dx">>, "dA", "iter", 154)
  @@ 169 :> StopTime(171)
  @@ 171 :> Log(181)
  @@ 181 :> ReturnStatus("SUCCESS")

testing_her_batched ==
  her_batched_quick @@ her_batched_setup @@ her_batched_host_call
  @@ her_batched_device_call @@ her_batched_oracle @@ her_batched_verify
  @@ her_batched_timing

Prog ==
  [d \in Drivers |->
     CASE d = "her2k_strided_batched" -> testing_her2k_strided_batched
       [] d = "herk" -> testing_herk
       [] d = "hpr" -> testing_hpr
       [] d = "her_batched" -> testing_her_batched]

\* The first statement of each driver.
Start ==
  [d \in Drivers |->
     CASE d = "her2k_strided_batched" -> 79
       [] d = "herk" -> 315
       [] d = "hpr" -> 55
       [] d = "her_batched" -> 51]

-----------------------------------------------------------------------------
\* Buffer contents.

Tok(s, u) ==
  [src |-> s, upd |-> u]
Uninit ==
  Tok("none", 0)

\* Number of batch elements a buffer of the running driver holds.
nb ==
  IF driver \in Batched THEN arg.batch_count ELSE 1

Fill(name, t) ==
  IF name \in Scalars THEN <<t>> ELSE [k \in 1..nb |-> t]

\* The Hermitian update applied to one batch element.
Upd(t) ==
  IF t.src = "none" THEN t
  ELSE IF t.upd < 0 THEN t
  ELSE Tok(t.src, t.upd + 1)

\* What the kernel of the library under test may leave in its output buffer:
\* the update, or with a faulty library a buffer that is not the update (an
\* empty matrix cannot be wrong).
KernelResults(c) ==
  {[k \in DOMAIN c |-> Upd(c[k])]}
  \cup (IF lib = "faulty" /\ arg.N > 0
        THEN {[k \in DOMAIN c |-> Tok(c[k].src, -1)]}
        ELSE {})

\* The elements <<batch vector index, offset>> that the checks read, from the
\* arguments of the call.  as is (M, N, lda), (M, N, batch_count, lda) or
\* (M, N, batch_count, lda, stride).
UnitCheckRegion(as) ==
  CASE Len(as) = 3 ->
         {<<0, i + j * as[3]>> : i \in 0..(as[1] - 1), j \in 0..(as[2] - 1)}
    [] Len(as) = 4 ->
         UNION {{<<k, i + j * as[4]>> : i \in 0..(as[1] - 1), j \in 0..(as[2] - 1)} :
                  k \in 0..(as[3] - 1)}
    [] Len(as) = 5 ->
         UNION {{<<0, i + j * as[4] + k * as[5]>> :
                   i \in 0..(as[1] - 1), j \in 0..(as[2] - 1)} :
                  k \in 0..(as[3] - 1)}

\* norm_check_general takes (M, N, lda), (M, N, lda, batch_count) or
\* (M, N, lda, stride, batch_count).
NormCheckRegion(as) ==
  CASE Len(as) = 3 -> UnitCheckRegion(as)
    [] Len(as) = 4 -> UnitCheckRegion(<<as[1], as[2], as[4], as[3]>>)
    [] Len(as) = 5 -> UnitCheckRegion(<<as[1], as[2], as[5], as[3], as[4]>>)

\* ASSERT_HIP_SUCCESS, ASSERT_HIPBLAS_SUCCESS, CHECK_HIP_ERROR and
\* CHECK_HIPBLAS_ERROR: where control goes after a call that returned st.
Checked(st, n) ==
  IF st \in SuccessStatuses THEN n ELSE 0

Vals(as) ==
  [k \in DOMAIN as |-> Val(as[k])]

-----------------------------------------------------------------------------
\* Inputs.

Flags ==
  [unit_check : BOOLEAN, norm_check : BOOLEAN, timing : BOOLEAN,
   cold_iters : 0..MaxIters, iters : 0..MaxIters]

Shape(n, k, la, lb, lc, ix, bc, ss, ul, tr) ==
  [N |-> n, K |-> k, lda |-> la, ldb |-> lb, ldc |-> lc, incx |-> ix,
   batch_count |-> bc, stride_scale |-> ss, uplo |-> ul, transA |-> tr]

Args(sh, fl) ==
  [N |-> sh.N, K |-> sh.K, lda |-> sh.lda, ldb |-> sh.ldb, ldc |-> sh.ldc,
   incx |-> sh.incx, batch_count |-> sh.batch_count,
   stride_scale |-> sh.stride_scale, uplo |-> sh.uplo, transA |-> sh.transA,
   unit_check |-> fl.unit_check, norm_check |-> fl.norm_check,
   timing |-> fl.timing, cold_iters |-> fl.cold_iters, iters |-> fl.iters]

Dims == -1..MaxN
Lds == 1..MaxN
BatchCounts == -1..MaxBatch

\* Shapes for the control-flow specification: every N and batch_count, with
\* leading dimensions that fit.
FlowShapes(d) ==
  {Shape(n, 1, MaxN, MaxN, MaxN, 1, bc, 1, "U", "N") :
     n \in Dims, bc \in (IF d \in Batched THEN BatchCounts ELSE {1})}

\* Shapes for the argument specification: every combination of the arguments
\* the driver reads.
AllShapes(d) ==
  CASE d = "her2k_strided_batched" ->
         {Shape(n, k, la, lb, lc, 1, bc, ss, ul, tr) :
            n \in Dims, k \in Dims, la \in Lds, lb \in Lds, lc \in Lds,
            bc \in BatchCounts, ss \in {1, 2}, ul \in {"U", "L"}, tr \in {"N", "C"}}
    [] d = "herk" ->
         {Shape(n, k, la, 1, lc, 1, 1, 1, ul, tr) :
            n \in Dims, k \in Dims, la \in Lds, lc \in Lds,
            ul \in {"U", "L"}, tr \in {"N", "C"}}
    [] d = "hpr" ->
         {Shape(n, 1, 1, 1, 1, ix, 1, 1, ul, "N") :
            n \in Dims, ix \in {-1, 0, 1}, ul \in {"U", "L"}}
    [] d = "her_batched" ->
         {Shape(n, 1, la, 1, 1, ix, bc, 1, ul, "N") :
            n \in Dims, la \in 0..MaxN, ix \in {-1, 0, 1}, bc \in BatchCounts,
            ul \in {"U", "L"}}

InitState ==
  /\ pc = Start[driver]
  /\ b = 0
  /\ iter = 0
  /\ size = [n \in Bufs |-> -1]
  /\ mem = [n \in Bufs |-> <<>>]
  /\ mode = "none"
  /\ gpu_time_used = 0
  /\ hipblas_error_host = 0
  /\ hipblas_error_device = 0
  /\ actual = "none"
  /\ assigned = {}
  /\ clock = 0
  /\ fatal = FALSE
  /\ ret = "none"
  /\ trace = <<>>

Init ==
  /\ driver \in Drivers
  /\ lib \in {"correct", "faulty"}
  /\ \E sh \in FlowShapes(driver), fl \in Flags : arg = Args(sh, fl)
  /\ InitState

InitShapes ==
  /\ driver \in Drivers
  /\ lib = "correct"
  /\ \E sh \in AllShapes(driver) :
       arg = Args(sh, [unit_check |-> TRUE, norm_check |-> TRUE, timing |-> TRUE,
                       cold_iters |-> 1, iters |-> 1])
  /\ InitState

-----------------------------------------------------------------------------
\* Statement execution.

Cur ==
  Prog[driver][pc]

At(o) ==
  pc # 0 /\ Cur.op = o

Emit(e) ==
  trace' = Append(trace, e)

\* if (...) and the test of for (...; ...; ...)
Branch ==
  /\ At("if")
  /\ pc' = IF Cond(Cur.cond) THEN Cur.yes ELSE Cur.no
  /\ UNCHANGED <<driver, arg, lib, b, iter, size, mem, mode, gpu_time_used,
                 hipblas_error_host, hipblas_error_device, actual, assigned,
                 clock, fatal, ret, trace>>

\* return; from the void test function, into its _ret wrapper
ReturnVoid ==
  /\ At("return")
  /\ pc' = Cur.next
  /\ UNCHANGED <<driver, arg, lib, b, iter, size, mem, mode, gpu_time_used,
                 hipblas_error_host, hipblas_error_device, actual, assigned,
                 clock, fatal, ret, trace>>

\* return <status>;
ReturnWithStatus ==
  /\ At("return_status")
  /\ ret' = (IF Cur.status = "actual" THEN actual ELSE Cur.status)
  /\ pc' = 0
  /\ Emit([ev |-> "return", line |-> pc, status |-> ret'])
  /\ UNCHANGED <<driver, arg, lib, b, iter, size, mem, mode, gpu_time_used,
                 hipblas_error_host, hipblas_error_device, actual, assigned,
                 clock, fatal>>

\* host_vector<T> h(size); device_vector<T> d(size);
Allocate ==
  /\ At("alloc")
  /\ LET names == {Cur.bufs[k][1] : k \in DOMAIN Cur.bufs}
         sz(n) == Val(Cur.bufs[CHOOSE k \in DOMAIN Cur.bufs : Cur.bufs[k][1] = n][2])
     IN  /\ size' = [n \in Bufs |-> IF n \in names THEN sz(n) ELSE size[n]]
         /\ mem' = [n \in Bufs |-> IF n \in names THEN Fill(n, Uninit) ELSE mem[n]]
         /\ Emit([ev |-> "alloc", line |-> pc, bufs |-> names])
  /\ pc' = Cur.next
  /\ UNCHANGED <<driver, arg, lib, b, iter, mode, gpu_time_used,
                 hipblas_error_host, hipblas_error_device, actual, assigned,
                 clock, fatal, ret>>

\* hipblasLocalHandle handle(arg);  The pointer mode of a new handle is the
\* library's default, which the drivers do not read.
CreateHandle ==
  /\ At("handle")
  /\ mode' \in PointerModes
  /\ pc' = Cur.next
  /\ Emit([ev |-> "handle", line |-> pc])
  /\ UNCHANGED <<driver, arg, lib, b, iter, size, mem, gpu_time_used,
                 hipblas_error_host, hipblas_error_device, actual, assigned,
                 clock, fatal, ret>>

\* h_alpha = arg.get_alpha<T>(); h_beta = arg.get_beta<U>();
GetScalars ==
  /\ At("get_scalar")
  /\ LET names == {Cur.dsts[k] : k \in DOMAIN Cur.dsts}
     IN  /\ mem' = [n \in Bufs |-> IF n \in names THEN <<Tok(n, 0)>> ELSE mem[n]]
         /\ size' = [n \in Bufs |-> IF n \in names THEN 1 ELSE size[n]]
  /\ pc' = Cur.next
  /\ UNCHANGED <<driver, arg, lib, b, iter, mode, gpu_time_used,
                 hipblas_error_host, hipblas_error_device, actual, assigned,
                 clock, fatal, ret, trace>>

\* hipblas_init_matrix(h, arg, rows, cols, ld, stride, batch_count, ...);
\* hipblas_init_vector(h, arg, ...);
hipblas_init ==
  /\ At("init")
  /\ mem' = [mem EXCEPT ![Cur.buf] = Fill(Cur.buf, Tok(Cur.buf, 0))]
  /\ Emit([ev |-> "init", line |-> pc, buf |-> Cur.buf, args |-> Vals(Cur.args),
           size |-> size[Cur.buf]])
  /\ pc' = Cur.next
  /\ UNCHANGED <<driver, arg, lib, b, iter, size, mode, gpu_time_used,
                 hipblas_error_host, hipblas_error_device, actual, assigned,
                 clock, fatal, ret>>

\* hC_device = hC_host;  hA_cpu.copy_from(hA);
HostCopy ==
  /\ At("assign")
  /\ mem' = [mem EXCEPT ![Cur.dst] = mem[Cur.src]]
  /\ Emit([ev |-> "assign", line |-> pc, dst |-> Cur.dst, src |-> Cur.src,
           data |-> mem[Cur.src]])
  /\ pc' = Cur.next
  /\ UNCHANGED <<driver, arg, lib, b, iter, size, mode, gpu_time_used,
                 hipblas_error_host, hipblas_error_device, actual, assigned,
                 clock, fatal, ret>>

\* hipMemcpy with its status ignored: control goes on whatever it returned.
hipMemcpy_unchecked ==
  /\ At("memcpy")
  /\ \E st \in HipStatuses :
       /\ mem' = IF st \in SuccessStatuses
                 THEN [mem EXCEPT ![Cur.dst] = mem[Cur.src]]
                 ELSE mem
       /\ Emit([ev |-> "memcpy", line |-> pc, dst |-> Cur.dst, src |-> Cur.src,
                data |-> mem[Cur.src], status |-> st])
       /\ pc' = Cur.next
       /\ fatal' = fatal
  /\ UNCHANGED <<driver, arg, lib, b, iter, size, mode, gpu_time_used,
                 hipblas_error_host, hipblas_error_device, actual, assigned,
                 clock, ret>>

\* ASSERT_HIP_SUCCESS(hipMemcpy(dst, src, ...));  CHECK_HIP_ERROR(d.transfer_from(h));
hipMemcpy ==
  /\ At("memcpy")
  /\ \E st \in HipStatuses :
       /\ mem' = IF st \in SuccessStatuses
                 THEN [mem EXCEPT ![Cur.dst] = mem[Cur.src]]
                 ELSE mem
       /\ Emit([ev |-> "memcpy", line |-> pc, dst |-> Cur.dst, src |-> Cur.src,
                data |-> mem[Cur.src], status |-> st])
       /\ pc' = Checked(st, Cur.next)
       /\ fatal' = (st \notin SuccessStatuses)
  /\ UNCHANGED <<driver, arg, lib, b, iter, size, mode, gpu_time_used,
                 hipblas_error_host, hipblas_error_device, actual, assigned,
                 clock, ret>>

\* CHECK_HIP_ERROR(d.memcheck());
memcheck ==
  /\ At("memcheck")
  /\ \E st \in HipStatuses :
       /\ Emit([ev |-> "memcheck", line |-> pc, buf |-> Cur.buf, status |-> st])
       /\ pc' = Checked(st, Cur.next)
       /\ fatal' = (st \notin SuccessStatuses)
  /\ UNCHANGED <<driver, arg, lib, b, iter, size, mem, mode, gpu_time_used,
                 hipblas_error_host, hipblas_error_device, actual, assigned,
                 clock, ret>>

\* ASSERT_HIPBLAS_SUCCESS(hipblasSetPointerMode(handle, mode));
hipblasSetPointerMode ==
  /\ At("setmode")
  /\ \E st \in {"SUCCESS", "EXECUTION_FAILED"} :
       /\ mode' = IF st \in SuccessStatuses THEN Cur.mode ELSE mode
       /\ Emit([ev |-> "setmode", line |-> pc, mode |-> Cur.mode, status |-> st])
       /\ pc' = Checked(st, Cur.next)
       /\ fatal' = (st \notin SuccessStatuses)
  /\ UNCHANGED <<driver, arg, lib, b, iter, size, mem, gpu_time_used,
                 hipblas_error_host, hipblas_error_device, actual, assigned,
                 clock, ret>>

\* ASSERT_HIPBLAS_SUCCESS(hipblasGetStream(handle, &stream));
hipblasGetStream ==
  /\ At("getstream")
  /\ \E st \in {"SUCCESS", "EXECUTION_FAILED"} :
       /\ Emit([ev |-> "getstream", line |-> pc, status |-> st])
       /\ pc' = Checked(st, Cur.next)
       /\ fatal' = (st \notin SuccessStatuses)
  /\ UNCHANGED <<driver, arg, lib, b, iter, size, mem, mode, gpu_time_used,
                 hipblas_error_host, hipblas_error_device, actual, assigned,
                 clock, ret>>

\* The residence of the scalar pointers of a kernel call.
ScalarResidence(sc) ==
  {Residence(sc[k]) : k \in DOMAIN sc}

\* ASSERT_HIPBLAS_SUCCESS(hipblasXxxFn(handle, uplo, ..., alpha, dA, ..., dC, ...));
\* One invocation of the kernel under test; the for-increment of the timing
\* loop follows it.
hipblasFn ==
  /\ At("kernel")
  /\ \/ \E res \in KernelResults(mem[Cur.out]) :
          /\ mem' = [mem EXCEPT ![Cur.out] = res]
          /\ Emit([ev |-> "kernel", line |-> pc, phase |-> Cur.phase,
                   mode |-> mode, scal |-> ScalarResidence(Cur.scal),
                   scalars |-> [k \in DOMAIN Cur.scal |-> mem[Cur.scal[k]]],
                   ins |-> [k \in DOMAIN Cur.ins |-> mem[Cur.ins[k]]],
                   out |-> Cur.out, before |-> mem[Cur.out], after |-> res,
                   uplo |-> arg.uplo, status |-> "SUCCESS"])
          /\ pc' = Checked("SUCCESS", Cur.next)
          /\ fatal' = FALSE
          /\ iter' = IF Cur.inc = "iter" THEN iter + 1 ELSE iter
     \/ \E st \in BlasStatuses \ SuccessStatuses :
          /\ mem' = mem
          /\ Emit([ev |-> "kernel", line |-> pc, phase |-> Cur.phase,
                   mode |-> mode, scal |-> ScalarResidence(Cur.scal),
                   scalars |-> [k \in DOMAIN Cur.scal |-> mem[Cur.scal[k]]],
                   ins |-> [k \in DOMAIN Cur.ins |-> mem[Cur.ins[k]]],
                   out |-> Cur.out, before |-> mem[Cur.out], after |-> mem[Cur.out],
                   uplo |-> arg.uplo, status |-> st])
          /\ pc' = Checked(st, Cur.next)
          /\ fatal' = TRUE
          /\ iter' = iter
  /\ clock' = clock + 1
  /\ UNCHANGED <<driver, arg, lib, b, size, mode, gpu_time_used,
                 hipblas_error_host, hipblas_error_device, actual, assigned, ret>>

\* hipblasStatus_t actual = hipblasXxxFn(handle, uplo, N, nullptr, nullptr, incx, nullptr, ...);
hipblasFnNull ==
  /\ At("kernel_null")
  /\ \E st \in BlasStatuses :
       /\ actual' = st
       /\ Emit([ev |-> "kernel", line |-> pc, phase |-> "quick", mode |-> mode,
                scal |-> {"null"}, scalars |-> <<>>, ins |-> <<>>, out |-> "null",
                before |-> <<>>, after |-> <<>>, uplo |-> arg.uplo, status |-> st])
  /\ pc' = Cur.next
  /\ UNCHANGED <<driver, arg, lib, b, iter, size, mem, mode, gpu_time_used,
                 hipblas_error_host, hipblas_error_device, assigned, clock,
                 fatal, ret>>

\* EXPECT_HIPBLAS_STATUS(actual, invalid_size ? INVALID_VALUE : SUCCESS);
ExpectStatus ==
  /\ At("expect")
  /\ LET invalid == IF driver = "hpr" THEN hpr_invalid_size
                    ELSE her_batched_invalid_size
         expected == IF invalid THEN "INVALID_VALUE" ELSE "SUCCESS"
     IN  Emit([ev |-> "expect", line |-> pc, actual |-> actual,
               expected |-> expected, pass |-> (actual = expected)])
  /\ pc' = Cur.next
  /\ UNCHANGED <<driver, arg, lib, b, iter, size, mem, mode, gpu_time_used,
                 hipblas_error_host, hipblas_error_device, actual, assigned,
                 clock, fatal, ret>>

\* cblas_xxx<T>(uplo, ..., h_alpha, hA + b * stride_A, ..., hC_gold + b * stride_C, ldc);
\* One application of the reference routine; the for-increment of the batch
\* loop follows it.
cblas ==
  /\ At("oracle")
  /\ LET k == IF Cur.inc = "b" THEN b + 1 ELSE 1
     IN  /\ mem' = [mem EXCEPT ![Cur.out][k] = Upd(mem[Cur.out][k])]
         /\ Emit([ev |-> "oracle", line |-> pc, b |-> k - 1,
                  scalars |-> [i \in DOMAIN Cur.scal |-> mem[Cur.scal[i]]],
                  ins |-> [i \in DOMAIN Cur.ins |-> mem[Cur.ins[i]][k]],
                  reads |-> {<<Cur.ins[i], (k - 1) * Val(Cur.strides[i])>> :
                               i \in DOMAIN Cur.ins},
                  out |-> Cur.out,
                  writes |-> <<Cur.out, (k - 1) * Val(Cur.ostride)>>,
                  before |-> mem[Cur.out][k], uplo |-> arg.uplo])
  /\ b' = IF Cur.inc = "b" THEN b + 1 ELSE b
  /\ pc' = Cur.next
  /\ UNCHANGED <<driver, arg, lib, iter, size, mode, gpu_time_used,
                 hipblas_error_host, hipblas_error_device, actual, assigned,
                 clock, fatal, ret>>

\* unit_check_general<T>(M, N, [batch_count,] lda, [stride,] hGold, hOther);
unit_check_general ==
  /\ At("unit_check")
  /\ Emit([ev |-> "unit_check", line |-> pc, gold |-> Cur.gold, other |-> Cur.other,
           region |-> UnitCheckRegion(Vals(Cur.args)),
           pass |-> (mem[Cur.gold] = mem[Cur.other])])
  /\ pc' = Cur.next
  /\ UNCHANGED <<driver, arg, lib, b, iter, size, mem, mode, gpu_time_used,
                 hipblas_error_host, hipblas_error_device, actual, assigned,
                 clock, fatal, ret>>

\* hipblas_error_xxx = norm_check_general<T>('F', M, N, lda, [stride,] hGold, hOther [, batch_count]);
norm_check_general ==
  /\ At("norm_check")
  /\ LET score == IF mem[Cur.gold] = mem[Cur.other] THEN 0 ELSE 1
     IN  /\ hipblas_error_host' =
               IF Cur.var = "hipblas_error_host" THEN score ELSE hipblas_error_host
         /\ hipblas_error_device' =
               IF Cur.var = "hipblas_error_device" THEN score ELSE hipblas_error_device
         /\ Emit([ev |-> "norm_check", line |-> pc, gold |-> Cur.gold,
                  other |-> Cur.other, region |-> NormCheckRegion(Vals(Cur.args)),
                  var |-> Cur.var, score |-> score])
  /\ assigned' = assigned \cup {Cur.var}
  /\ pc' = Cur.next
  /\ UNCHANGED <<driver, arg, lib, b, iter, size, mem, mode, gpu_time_used,
                 actual, clock, fatal, ret>>

\* gpu_time_used = get_time_us_sync(stream);
StartTimer ==
  /\ At("timestamp")
  /\ gpu_time_used' = clock
  /\ assigned' = assigned \cup {"gpu_time_used"}
  /\ Emit([ev |-> "timestamp", line |-> pc, time |-> clock, iter |-> iter])
  /\ pc' = Cur.next
  /\ UNCHANGED <<driver, arg, lib, b, iter, size, mem, mode,
                 hipblas_error_host, hipblas_error_device, actual, clock,
                 fatal, ret>>

\* gpu_time_used = get_time_us_sync(stream) - gpu_time_used;
\* gpu_time_used is read; when nothing has written it the value read is any.
StopTimer ==
  /\ At("stoptime")
  /\ \E start \in (IF "gpu_time_used" \in assigned THEN {gpu_time_used} ELSE Garbage) :
       /\ gpu_time_used' = clock - start
       /\ Emit([ev |-> "stoptime", line |-> pc, time |-> clock, start |-> start,
                start_written |-> ("gpu_time_used" \in assigned)])
  /\ assigned' = assigned \cup {"gpu_time_used"}
  /\ pc' = Cur.next
  /\ UNCHANGED <<driver, arg, lib, b, iter, size, mem, mode,
                 hipblas_error_host, hipblas_error_device, actual, clock,
                 fatal, ret>>

\* Model{}.log_args<T>(std::cout, arg, gpu_time_used, gflop, gbyte,
\*                     hipblas_error_host, hipblas_error_device);
\* The two error scores are read; an unwritten one reads as any value.
log_args ==
  /\ At("log")
  /\ \E eh \in (IF "hipblas_error_host" \in assigned
                THEN {hipblas_error_host} ELSE Garbage),
        ed \in (IF "hipblas_error_device" \in assigned
                THEN {hipblas_error_device} ELSE Garbage) :
       Emit([ev |-> "log", line |-> pc, time |-> gpu_time_used,
             error_host |-> eh, error_device |-> ed,
             host_written |-> ("hipblas_error_host" \in assigned),
             device_written |-> ("hipblas_error_device" \in assigned)])
  /\ pc' = Cur.next
  /\ UNCHANGED <<driver, arg, lib, b, iter, size, mem, mode, gpu_time_used,
                 hipblas_error_host, hipblas_error_device, actual, assigned,
                 clock, fatal, ret>>

Next ==
  \/ Branch
  \/ ReturnVoid
  \/ ReturnWithStatus
  \/ Allocate
  \/ CreateHandle
  \/ GetScalars
  \/ hipblas_init
  \/ HostCopy
  \/ hipMemcpy
  \/ memcheck
  \/ hipblasSetPointerMode
  \/ hipblasGetStream
  \/ hipblasFn
  \/ hipblasFnNull
  \/ ExpectStatus
  \/ cblas
  \/ unit_check_general
  \/ norm_check_general
  \/ StartTimer
  \/ StopTimer
  \/ log_args

Spec ==
  Init /\ [][Next]_vars

SpecShapes ==
  InitShapes /\ [][Next]_vars

-----------------------------------------------------------------------------
\* Reading the trace.

Idx(e) ==
  {i \in DOMAIN trace : trace[i].ev = e}

KernelIdx(ph) ==
  {i \in Idx("kernel") : trace[i].phase = ph}

CheckCalls ==
  SelectSeq(trace, LAMBDA e : e.ev = "kernel" /\ e.phase = "check")

TimingCalls ==
  SelectSeq(trace, LAMBDA e : e.ev = "kernel" /\ e.phase = "timing")

UnitChecks ==
  SelectSeq(trace, LAMBDA e : e.ev = "unit_check")

Succeeded(i) ==
  trace[i].status \in SuccessStatuses

\* The events that write buffer x.
Writes(x) ==
  {i \in DOMAIN trace :
     \/ trace[i].ev = "init" /\ trace[i].buf = x
     \/ trace[i].ev = "assign" /\ trace[i].dst = x
     \/ trace[i].ev = "memcpy" /\ trace[i].dst = x /\ Succeeded(i)
     \/ trace[i].ev = "oracle" /\ trace[i].out = x
     \/ trace[i].ev = "kernel" /\ trace[i].out = x /\ Succeeded(i)}

\* Data as the initialiser left it.
IsInitial(c) ==
  \A k \in DOMAIN c : c[k].src # "none" /\ c[k].upd = 0

\* The driver passed its sanity check and ran to its end without a failure.
Completed ==
  pc = 0 /\ ~fatal /\ Idx("alloc") # {}

\* The host buffers that received the result of the check-phase kernel call
\* made under pointer mode m.
ResultBufs(m) ==
  {trace[i + 1].dst : i \in {j \in KernelIdx("check") :
      /\ trace[j].mode = m
      /\ Succeeded(j)
      /\ j + 1 \in DOMAIN trace
      /\ trace[j + 1].ev = "memcpy"
      /\ Succeeded(j + 1)}}

-----------------------------------------------------------------------------
\* C1: in the check phase the kernel is invoked exactly twice, first under
\* pointer mode HOST with host-resident scalars, then under pointer mode
\* DEVICE with device-resident scalars; the mode is set right before each of
\* the two calls, and no call of the check phase or of the timing loop passes
\* scalars whose residence disagrees with the current pointer mode.
C1_TwoCallsModeMatchesScalars ==
  /\ \A i \in KernelIdx("check") \cup KernelIdx("timing") :
       \/ trace[i].mode = "HOST" /\ trace[i].scal = {"host"}
       \/ trace[i].mode = "DEVICE" /\ trace[i].scal = {"device"}
  /\ \A i \in KernelIdx("check") :
       /\ i - 1 \in Idx("setmode")
       /\ Succeeded(i - 1)
       /\ trace[i - 1].mode = trace[i].mode
  /\ Len(CheckCalls) <= 2
  /\ Len(CheckCalls) >= 1 => CheckCalls[1].mode = "HOST"
  /\ Len(CheckCalls) >= 2 => CheckCalls[2].mode = "DEVICE"
  /\ (Idx("oracle") # {} \/ (Completed /\ (arg.unit_check \/ arg.norm_check)))
       => Len(CheckCalls) = 2

C1_Witness ==
  /\ Completed
  /\ Len(CheckCalls) = 2
  /\ Len(TimingCalls) = 2

\* C2: with unit_check enabled every driver unit-checks the oracle output
\* once against the host-pointer-mode result and once against the
\* device-pointer-mode result, so a wrong device-pointer-mode result always
\* produces a unit-check failure.
C2_UnitCheckCoversBothModes ==
  (Completed /\ arg.unit_check) =>
    \A m \in PointerModes : \A x \in ResultBufs(m) :
      /\ \E k \in DOMAIN UnitChecks : UnitChecks[k].other = x
      /\ \A k \in DOMAIN UnitChecks :
           mem[x] # mem[UnitChecks[k].gold] =>
             \E f \in DOMAIN UnitChecks : ~UnitChecks[f].pass

\* C3: between the two calls of the check phase the device output buffer is
\* re-copied from a host copy of the initial data, after the host-mode result
\* was copied back; at the second call it holds the initial data the first
\* call started from; the host buffer it is re-copied from has not been
\* written since its initialisation.
C3_OutputRestoredBeforeDeviceCall ==
  \A i1, i2 \in KernelIdx("check") :
    i1 < i2 =>
      /\ IsInitial(trace[i1].before)
      /\ trace[i2].before = trace[i1].before
      /\ \E c, r \in Idx("memcpy") :
           /\ i1 < c /\ c < r /\ r < i2
           /\ trace[c].src = trace[i1].out
           /\ trace[c].data = trace[i1].after
           /\ trace[r].dst = trace[i2].out
           /\ trace[r].data = trace[i1].before
           /\ \A w \in Writes(trace[r].src) :
                w < r => (w < i1 /\ trace[w].ev \in {"init", "assign"})
           /\ Cardinality({w \in Writes(trace[r].src) : w < r}) = 1
           /\ \A w \in Writes(trace[i2].out) : ~(r < w /\ w < i2)

C3_Witness ==
  \E i1, i2 \in KernelIdx("check") :
    /\ i1 < i2
    /\ arg.N > 0
    /\ trace[i1].after # trace[i1].before
    /\ driver = "her2k_strided_batched"

-----------------------------------------------------------------------------
\* No vector or matrix buffer exists or holds data (h_alpha and h_beta are
\* scalar locals, not buffers).
NoBufferWritten ==
  /\ \A n \in Bufs \ {"h_alpha", "h_beta"} : size[n] = -1 /\ mem[n] = <<>>
  /\ Idx("alloc") \cup Idx("init") \cup Idx("assign") \cup Idx("memcpy") = {}

\* The quick-return path of hpr and her_batched: one kernel call with null
\* pointers, one expectation on its status.
QuickCallExpecting(st) ==
  /\ Cardinality(Idx("kernel")) = 1
  /\ \A i \in Idx("kernel") : trace[i].phase = "quick" /\ trace[i].scal = {"null"}
  /\ Cardinality(Idx("expect")) = 1
  /\ \A i \in Idx("expect") :
       /\ trace[i].expected = st
       /\ trace[i].actual = actual
       /\ trace[i].pass <=> (actual = st)

\* C4 as stated: for negative N no buffer is written and the outcome reported
\* for the test case is the invalid-argument status.
C4_NegativeNReportsInvalid ==
  arg.N < 0 =>
    /\ NoBufferWritten
    /\ pc = 0 => ret = "INVALID_VALUE"

\* C4, amended: for negative N no driver allocates or writes a buffer;
\* her2k_strided_batched and herk return without a kernel call and their
\* wrappers report SUCCESS; hpr and her_batched call the kernel once with null
\* pointers and expect INVALID_VALUE of it; the hpr wrapper reports SUCCESS,
\* her_batched returns the status the kernel gave.
C4_NegativeNQuickReturn ==
  arg.N < 0 =>
    /\ NoBufferWritten
    /\ ~fatal
    /\ driver \in {"her2k_strided_batched", "herk"} => Idx("kernel") = {}
    /\ pc = 0 =>
         CASE driver \in {"her2k_strided_batched", "herk"} -> ret = "SUCCESS"
           [] driver = "hpr" -> ret = "SUCCESS" /\ QuickCallExpecting("INVALID_VALUE")
           [] driver = "her_batched" ->
                ret = actual /\ QuickCallExpecting("INVALID_VALUE")

C4_Witness ==
  /\ arg.N < 0
  /\ pc = 0
  /\ driver = "her_batched"
  /\ ret = "INVALID_VALUE"
  /\ arg.batch_count > 0

\* The arguments other than batch_count pass the driver's checks.
OthersValid ==
  CASE driver = "her2k_strided_batched" ->
         /\ arg.N >= 0 /\ arg.K >= 0 /\ arg.ldc >= arg.N
         /\ arg.transA = "N" => (arg.lda >= arg.N /\ arg.ldb >= arg.N)
         /\ arg.transA # "N" => (arg.lda >= arg.K /\ arg.ldb >= arg.K)
    [] driver = "her_batched" ->
         arg.N >= 0 /\ arg.lda >= arg.N /\ arg.lda >= 1 /\ arg.incx # 0
    [] OTHER -> FALSE

\* C5 as stated: in the batched drivers, batch_count = 0 writes no buffer and
\* yields SUCCESS, batch_count < 0 yields an error status.
C5_ZeroBatchSuccessNegativeBatchError ==
  (driver \in Batched /\ OthersValid) =>
    /\ arg.batch_count = 0 => (NoBufferWritten /\ (pc = 0 => ret = "SUCCESS"))
    /\ arg.batch_count < 0 => (pc = 0 => ret \notin {"SUCCESS", "none"})

\* C5, amended: with the other arguments valid, her_batched writes no buffer
\* for batch_count <= 0, calls the kernel once with null pointers, expects
\* SUCCESS for batch_count = 0 and INVALID_VALUE for batch_count < 0 and
\* returns the status the kernel gave; her2k_strided_batched writes no buffer,
\* makes no kernel call and reports SUCCESS for batch_count = 0 and for
\* batch_count < 0 alike.
C5_BatchCountQuickReturn ==
  (driver \in Batched /\ OthersValid /\ arg.batch_count <= 0) =>
    /\ NoBufferWritten
    /\ ~fatal
    /\ driver = "her2k_strided_batched" =>
         (Idx("kernel") = {} /\ (pc = 0 => ret = "SUCCESS"))
    /\ driver = "her_batched" =>
         (pc = 0 =>
            /\ ret = actual
            /\ QuickCallExpecting(IF arg.batch_count < 0
                                  THEN "INVALID_VALUE" ELSE "SUCCESS"))

C5_Witness ==
  /\ driver = "her_batched"
  /\ OthersValid
  /\ arg.N > 0
  /\ arg.batch_count < 0
  /\ pc = 0
  /\ ret = "INVALID_VALUE"

\* C6: once a memory copy, set-pointer-mode, get-stream or kernel call has
\* returned a non-success status the test case is over: no kernel call, copy,
\* oracle run, check or log record follows, and the call is not made again.
ExternalCalls ==
  {"memcpy", "memcheck", "setmode", "getstream", "kernel"}

C6_FailureIsFatal ==
  \A i \in DOMAIN trace :
    (trace[i].ev \in ExternalCalls /\ ~Succeeded(i)) =>
      /\ \A j \in DOMAIN trace : j > i => trace[j].ev \in {"expect", "return"}
      /\ (trace[i].ev = "kernel" /\ trace[i].phase = "quick")
           \/ (i = Len(trace) /\ pc = 0 /\ fatal)

C6_Witness ==
  /\ pc = 0
  /\ fatal
  /\ Len(CheckCalls) = 2
  /\ trace[Len(trace)].ev = "kernel"
  /\ trace[Len(trace)].status = "EXECUTION_FAILED"

\* C7: in timing mode, for every cold_iters >= 0 and iters >= 0, the start
\* timestamp is taken exactly once, after the last warm-up call and before
\* the first measured call, and the elapsed time is the stop timestamp minus
\* that start timestamp: the start value is written before it is read.
C7_TimerStartedOnceBeforeStop ==
  \A s \in Idx("stoptime") :
    /\ trace[s].start_written
    /\ Cardinality(Idx("timestamp")) = 1
    /\ \A t \in Idx("timestamp") :
         /\ t < s
         /\ trace[s].start = trace[t].time
         /\ Cardinality({i \in KernelIdx("timing") : i < t}) = arg.cold_iters
         /\ Cardinality({i \in KernelIdx("timing") : t < i /\ i < s}) = arg.iters

\* C8: in timing mode the kernel is invoked cold_iters + iters times, each
\* time with the same arguments, device-resident scalars and pointer mode
\* DEVICE, and the timing phase runs no oracle, unit check or norm check.
C8_TimingCalls ==
  /\ Len(TimingCalls) <= arg.cold_iters + arg.iters
  /\ Idx("log") # {} => Len(TimingCalls) = arg.cold_iters + arg.iters
  /\ \A k \in DOMAIN TimingCalls :
       /\ TimingCalls[k].mode = "DEVICE"
       /\ TimingCalls[k].scal = {"device"}
       /\ TimingCalls[k].line = TimingCalls[1].line
       /\ TimingCalls[k].out = TimingCalls[1].out
       /\ TimingCalls[k].scalars = TimingCalls[1].scalars
       /\ TimingCalls[k].ins = TimingCalls[1].ins
       /\ TimingCalls[k].uplo = TimingCalls[1].uplo
  /\ \A g \in Idx("getstream") : \A j \in DOMAIN trace :
       j > g => trace[j].ev \notin {"oracle", "unit_check", "norm_check"}

C8_Witness ==
  /\ Idx("log") # {}
  /\ arg.cold_iters = 1
  /\ arg.iters = 1
  /\ Len(TimingCalls) = 2
  /\ arg.unit_check
  /\ driver = "hpr"

\* The elements <<batch vector index, offset>> of the N x N windows of the
\* output matrix of a dense driver: those of the triangle that uplo selects,
\* or all of them.
Dense ==
  {"her2k_strided_batched", "herk", "her_batched"}

Elements(triangle) ==
  {<<IF driver = "her_batched" THEN t[1] ELSE 0,
     t[2] + t[3] * (IF driver = "her_batched" THEN arg.lda ELSE arg.ldc)
       + (IF driver = "her2k_strided_batched"
          THEN t[1] * arg.ldc * arg.N * arg.stride_scale ELSE 0)>> :
     t \in {u \in (0..(nb - 1)) \X (0..(arg.N - 1)) \X (0..(arg.N - 1)) :
              triangle =>
                (IF arg.uplo = "U" THEN u[2] <= u[3] ELSE u[2] >= u[3])}}

ChecksIdx ==
  Idx("unit_check") \cup Idx("norm_check")

C10_SameInitialData ==
  /\ \A i \in KernelIdx("check") :
       /\ IsInitial(trace[i].before)
       /\ \A k \in DOMAIN trace[i].ins : IsInitial(trace[i].ins[k])
       /\ \A k \in DOMAIN trace[i].scalars : IsInitial(trace[i].scalars[k])
  /\ \A o \in Idx("oracle") :
       LET e == trace[o]
           k == e.b + 1
           first == CHOOSE i \in Idx("oracle") : \A j \in Idx("oracle") : i <= j
           early == {w \in Writes(e.out) : w < first}
       IN  /\ Len(CheckCalls) = 2
           /\ \A c \in 1..2 :
                /\ CheckCalls[c].before[k] = e.before
                /\ \A i \in DOMAIN e.ins : CheckCalls[c].ins[i][k] = e.ins[i]
                /\ \A i \in DOMAIN e.scalars :
                     CheckCalls[c].scalars[i] = e.scalars[i]
           /\ Cardinality(early) = 1
           /\ \A w \in early :
                /\ trace[w].ev = "assign"
                /\ \A i \in Idx("kernel") : w < i
                /\ trace[w].data[k] = e.before

C10_Witness ==
  /\ driver = "her_batched"
  /\ \E o \in Idx("oracle") : trace[o].b = 1
  /\ arg.N = 2

-----------------------------------------------------------------------------
\* The two drivers whose matrix initialisers take rows, columns, leading
\* dimension, stride and batch count.
MatrixDrivers ==
  {"her2k_strided_batched", "herk"}

\* Offset one past the last element of a rows x cols matrix stored with
\* leading dimension ld.
Extent(rows, cols, ld) ==
  IF rows <= 0 \/ cols <= 0 THEN 0 ELSE (cols - 1) * ld + rows

\* The initialiser call of trace position i stays inside the buffer it is
\* given: rows <= leading dimension, and every batch element's rows x cols
\* lies inside the allocation.
InitFits(i) ==
  LET a == trace[i].args
  IN  /\ a[1] <= a[3]
      /\ \A k \in 0..(a[5] - 1) :
           k * a[4] + Extent(a[1], a[2], a[3]) <= trace[i].size

\* C11: in her2k_strided_batched and herk, for either transpose mode, every
\* matrix initialiser call made after the sanity check passes a row count
\* <= its leading dimension and addresses rows x columns inside the
\* allocated A_size / B_size / C_size.
C11_InitializedExtentFits ==
  driver \in MatrixDrivers => \A i \in Idx("init") : InitFits(i)

\* The same for transA = N alone, where lda and ldb are tested against N.
C11_InitializedExtentFitsNoTranspose ==
  (driver \in MatrixDrivers /\ arg.transA = "N") =>
    \A i \in Idx("init") : InitFits(i)

\* A transposed operand with K < N whose initialiser has run.
C11_Witness ==
  /\ driver \in MatrixDrivers
  /\ arg.transA # "N"
  /\ arg.K < arg.N
  /\ \E i \in Idx("init") : trace[i].buf = "hA"

-----------------------------------------------------------------------------
OracleRuns ==
  SelectSeq(trace, LAMBDA e : e.ev = "oracle")

\* The offsets [from, from + len) lie in slice k of a buffer cut into slices
\* of stride elements.
InSlice(from, len, k, stride) ==
  k * stride <= from /\ from + len <= (k + 1) * stride

\* Extent of the operand A or B that the reference her2k reads: N x K, or
\* K x N when transposed.
OperandExtent(ld) ==
  IF arg.transA = "N" THEN Extent(arg.N, arg.K, ld) ELSE Extent(arg.K, arg.N, ld)

\* Application e of the reference routine, made for batch index k, reads and
\* writes the slices of batch element k alone.
OracleTouchesOnly(e, k) ==
  IF driver = "her2k_strided_batched"
  THEN /\ e.reads = {<<"hA", k * her2k_stride_A>>, <<"hB", k * her2k_stride_B>>}
       /\ e.writes = <<"hC_gold", k * her2k_stride_C>>
       /\ InSlice(k * her2k_stride_A, OperandExtent(arg.lda), k, her2k_stride_A)
       /\ InSlice(k * her2k_stride_B, OperandExtent(arg.ldb), k, her2k_stride_B)
       /\ InSlice(k * her2k_stride_C, Extent(arg.N, arg.N, arg.ldc), k, her2k_stride_C)
  ELSE /\ e.reads = {<<"hx", k>>}
       /\ e.writes = <<"hA_cpu", k>>

\* C12: in the batched drivers the reference routine is applied once per
\* batch index 0..batch_count-1, in order; the application for index b reads
\* only the input slices of batch element b and writes only its output
\* slice; when the checks start every batch index has been served.
C12_OraclePerBatchElement ==
  driver \in Batched =>
    /\ \A k \in DOMAIN OracleRuns :
         /\ OracleRuns[k].b = k - 1
         /\ OracleRuns[k].b < arg.batch_count
         /\ OracleTouchesOnly(OracleRuns[k], k - 1)
    /\ (Idx("unit_check") \cup Idx("norm_check") # {}) =>
         Len(OracleRuns) = arg.batch_count

\* The reference routine has served two batch elements of non-empty
\* matrices and the checks have started.
C12_Witness ==
  /\ driver = "her2k_strided_batched"
  /\ arg.batch_count = 2
  /\ arg.N > 0
  /\ arg.K > 0
  /\ Len(OracleRuns) = 2
  /\ Idx("unit_check") # {}

-----------------------------------------------------------------------------
\* The phase an operation belongs to: 1 initialise, 3 device calls of the
\* check phase, 4 oracle, 5 verify, 6 timing loop, 7 log; 0 for operations
\* that carry no phase of their own (copies, handle, pointer mode, stream).
Phase(e) ==
  CASE e.ev \in {"init", "assign"} -> 1
    [] e.ev = "kernel" /\ e.phase = "check" -> 3
    [] e.ev = "oracle" -> 4
    [] e.ev \in {"unit_check", "norm_check"} -> 5
    [] e.ev = "kernel" /\ e.phase = "timing" -> 6
    [] e.ev \in {"timestamp", "stoptime"} -> 6
    [] e.ev = "log" -> 7
    [] OTHER -> 0

\* The copies made before the first invocation of the kernel.
Uploads ==
  {i \in Idx("memcpy") : \A j \in Idx("kernel") : i < j}

\* Every operand of kernel call i holds initialised data.
OperandsUploaded(i) ==
  /\ \A k \in DOMAIN trace[i].ins :
       \A m \in DOMAIN trace[i].ins[k] : trace[i].ins[k][m].src # "none"
  /\ \A m \in DOMAIN trace[i].before : trace[i].before[m].src # "none"
  /\ \A k \in DOMAIN trace[i].scalars :
       \A m \in DOMAIN trace[i].scalars[k] : trace[i].scalars[k][m].src # "none"

\* C13: a test case that passed the sanity check runs initialise, upload,
\* then (if unit_check or norm_check) two device calls, the oracle and the
\* checks, then (if timing) the timing loop and the log, in this order; the
\* check phase runs exactly when a check flag is set, the timing loop only
\* when timing is set, the log record is written exactly once when timing
\* is set and never otherwise; with no flag set there is no kernel call,
\* oracle run, check or log.
C13_PhaseOrder ==
  /\ \A i, j \in DOMAIN trace :
       (i < j /\ Phase(trace[i]) # 0 /\ Phase(trace[j]) # 0) =>
         Phase(trace[i]) <= Phase(trace[j])
  /\ \A i \in Idx("init") \cup Idx("assign") : \A j \in Idx("memcpy") : i < j
  /\ \A i \in KernelIdx("check") \cup KernelIdx("timing") : OperandsUploaded(i)
  /\ Idx("oracle") # {} => Len(CheckCalls) = 2
  /\ (Idx("unit_check") \cup Idx("norm_check") # {}) => Idx("oracle") # {}
  /\ ~(arg.unit_check \/ arg.norm_check) =>
       KernelIdx("check") \cup Idx("oracle") \cup Idx("unit_check")
         \cup Idx("norm_check") = {}
  /\ ~arg.unit_check => Idx("unit_check") = {}
  /\ ~arg.norm_check => Idx("norm_check") = {}
  /\ ~arg.timing => KernelIdx("timing") \cup Idx("log") \cup Idx("stoptime") = {}
  /\ Cardinality(Idx("log")) <= 1
  /\ Completed =>
       /\ Uploads # {}
       /\ (arg.unit_check \/ arg.norm_check) =>
            (Len(CheckCalls) = 2 /\ Idx("oracle") # {})
       /\ arg.unit_check => Idx("unit_check") # {}
       /\ arg.norm_check => Idx("norm_check") # {}
       /\ arg.timing => Cardinality(Idx("log")) = 1

\* A test case with a check flag and timing set has run through all phases.
C13_Witness ==
  /\ Completed
  /\ driver = "hpr"
  /\ arg.norm_check
  /\ ~arg.unit_check
  /\ arg.timing
  /\ Idx("norm_check") # {}
  /\ KernelIdx("timing") # {}
  /\ Idx("log") # {}

-----------------------------------------------------------------------------
\* The successful copies of the device result of a check-phase call made
\* under pointer mode m back to the host.
CopyBacks(m) ==
  {j \in Idx("memcpy") :
     /\ Succeeded(j)
     /\ j - 1 \in KernelIdx("check")
     /\ trace[j - 1].mode = m
     /\ Succeeded(j - 1)
     /\ trace[j].src = trace[j - 1].out
     /\ trace[j].dst \in HostBufs}

\* C14: every unit check of a test case precedes every norm check, and each
\* check of either kind is made after the results of both device calls have
\* been copied back to the host and after the oracle has served every batch
\* element.
C14_UnitBeforeNormAfterResults ==
  /\ \A u \in Idx("unit_check") : \A n \in Idx("norm_check") : u < n
  /\ \A c \in Idx("unit_check") \cup Idx("norm_check") :
       /\ \E j \in CopyBacks("HOST") : j < c
       /\ \E j \in CopyBacks("DEVICE") : j < c
       /\ \A o \in Idx("oracle") : o < c
       /\ Len(OracleRuns) = nb

\* Both kinds of check were made in one test case.
C14_Witness ==
  /\ Completed
  /\ arg.unit_check
  /\ arg.norm_check
  /\ Cardinality(Idx("unit_check")) = 2
  /\ Cardinality(Idx("norm_check")) = 2

-----------------------------------------------------------------------------
\* The invalid-size conditions of hpr and her_batched, and the arguments on
\* which these drivers take the quick return.
InvalidSize ==
  IF driver = "hpr"
  THEN arg.N < 0 \/ arg.incx = 0
  ELSE arg.N < 0 \/ arg.lda < arg.N \/ arg.lda < 1 \/ arg.incx = 0
         \/ arg.batch_count < 0

QuickReturn ==
  InvalidSize \/ arg.N = 0 \/ (driver = "her_batched" /\ arg.batch_count = 0)

\* C15: on the quick-return path of hpr and her_batched the kernel is called
\* exactly once, with null pointers; INVALID_VALUE is expected whenever an
\* invalid-size condition holds, also when N = 0 or batch_count = 0, and
\* SUCCESS is expected otherwise; her_batched returns the status the kernel
\* gave on this path, and SUCCESS at the end of the normal path.
C15_QuickReturnExpectation ==
  driver \in {"hpr", "her_batched"} =>
    /\ QuickReturn =>
         /\ Cardinality(Idx("kernel")) <= 1
         /\ \A i \in Idx("kernel") :
              /\ trace[i].phase = "quick"
              /\ trace[i].scal = {"null"}
              /\ trace[i].out = "null"
              /\ trace[i].ins = <<>>
         /\ Cardinality(Idx("expect")) <= 1
         /\ \A i \in Idx("expect") :
              /\ i - 1 \in Idx("kernel")
              /\ trace[i].actual = trace[i - 1].status
              /\ trace[i].expected =
                   (IF InvalidSize THEN "INVALID_VALUE" ELSE "SUCCESS")
         /\ pc = 0 =>
              /\ Cardinality(Idx("kernel")) = 1
              /\ Cardinality(Idx("expect")) = 1
              /\ driver = "her_batched" =>
                   \A i \in Idx("kernel") : ret = trace[i].status
    /\ ~QuickReturn =>
         /\ KernelIdx("quick") \cup Idx("expect") = {}
         /\ (driver = "her_batched" /\ Completed) => ret = "SUCCESS"

\* her_batched has returned the kernel's failure status from a quick return
\* on arguments that are both empty and invalid.
C15_Witness ==
  /\ driver = "her_batched"
  /\ arg.N = 0
  /\ arg.incx = 0
  /\ pc = 0
  /\ ret = "INVALID_VALUE"
  /\ \E i \in Idx("expect") : trace[i].expected = "INVALID_VALUE" /\ trace[i].pass

-----------------------------------------------------------------------------
\* The arguments on which a driver takes its quick return.
QuickTaken ==
  CASE driver = "her2k_strided_batched" ->
         \/ arg.N < 0 \/ arg.K < 0 \/ arg.ldc < arg.N \/ arg.batch_count <= 0
         \/ (arg.transA = "N" /\ (arg.lda < arg.N \/ arg.ldb < arg.N))
         \/ (arg.transA # "N" /\ (arg.lda < arg.K \/ arg.ldb < arg.K))
    [] driver = "herk" ->
         \/ arg.N < 0 \/ arg.K < 0 \/ arg.ldc < arg.N
         \/ (arg.transA = "N" /\ arg.lda < arg.N)
         \/ (arg.transA # "N" /\ arg.lda < arg.K)
    [] OTHER -> QuickReturn

\* The operations that make up the normal path.
NormalPathOps ==
  {"alloc", "init", "assign", "memcpy", "memcheck", "setmode", "getstream",
   "oracle", "unit_check", "norm_check", "timestamp", "stoptime", "log"}

\* C16: a driver that takes the quick return allocates no host or device
\* buffer and makes no copy, initialisation, oracle run, check, timing
\* iteration or log output; her2k_strided_batched and herk make no kernel
\* call either.
C16_QuickReturnTouchesNothing ==
  QuickTaken =>
    /\ \A i \in DOMAIN trace : trace[i].ev \notin NormalPathOps
    /\ KernelIdx("check") \cup KernelIdx("timing") = {}
    /\ \A x \in Bufs \ Scalars : size[x] = -1 /\ mem[x] = <<>>
    /\ \A x \in DevBufs : size[x] = -1 /\ mem[x] = <<>>
    /\ driver \in MatrixDrivers => Idx("kernel") = {}
    /\ ~fatal

\* her2k_strided_batched has returned from an empty batch of otherwise valid
\* arguments.
C16_Witness ==
  /\ driver = "her2k_strided_batched"
  /\ arg.batch_count = 0
  /\ arg.N > 0
  /\ arg.K > 0
  /\ arg.transA = "N"
  /\ arg.lda >= arg.N
  /\ arg.ldb >= arg.N
  /\ arg.ldc >= arg.N
  /\ pc = 0
  /\ ret = "SUCCESS"

-----------------------------------------------------------------------------
\* C17: whatever the flags unit_check, norm_check and timing, each error
\* score handed to the log record has been assigned by a norm check earlier
\* in the same test case.
C17_LoggedScoresAssigned ==
  \A i \in Idx("log") :
    /\ trace[i].host_written
    /\ trace[i].device_written
    /\ \E j \in Idx("norm_check") : j < i /\ trace[j].var = "hipblas_error_host"
    /\ \E j \in Idx("norm_check") : j < i /\ trace[j].var = "hipblas_error_device"

\* The same for test cases that have norm_check set.
C17_LoggedScoresAssignedWithNormCheck ==
  arg.norm_check => C17_LoggedScoresAssigned

-----------------------------------------------------------------------------
\* The first kernel call of the timing loop.
FirstTimingCall ==
  {i \in KernelIdx("timing") : \A j \in KernelIdx("timing") : i <= j}

\* C18: in every driver the device output buffer holds the initial data at
\* the first kernel call of the timing loop, whether or not the check phase
\* ran before it in the same test case.
C18_TimingStartsFromInitialData ==
  \A i \in FirstTimingCall : IsInitial(trace[i].before)

\* The same for the drivers that copy the output buffer again at the head of
\* the timing block, and for test cases without a check phase.
C18_TimingStartsFromInitialDataWhenRecopied ==
  (driver \in {"hpr", "her_batched"} \/ ~(arg.unit_check \/ arg.norm_check)) =>
    C18_TimingStartsFromInitialData
====
